---- MODULE Spec2Model ----
(***************************************************************************)
(* Lattice Boltzmann solver (src/src/lbgk.rs) with the BGK collision       *)
(* operator on the D2Q9 stencil, as a state machine.                       *)
(*                                                                         *)
(* f32 values are modelled in exact arithmetic as normalised rationals     *)
(* <<numerator, denominator>> with denominator > 0.  Positions are         *)
(* sequences (pos[1] is the code's pos[0]); flat indices and stencil       *)
(* direction indices are 0-based as in the code, stored in functions       *)
(* whose domain is 0..len-1 and 0..B-1.                                    *)
(***************************************************************************)
EXTENDS Integers, Sequences, FiniteSets, TLC

\* ------------------------------------------------------------------ bounds

\* iterate calls per run
MaxTicks == 2
\* obstacle cells present at the same time
MaxObjects == 1
\* cells along one dimension of the grid
MaxSide == 3

\* ------------------------------------------------------ exact f32 arithmetic

Abs(x) == IF x < 0 THEN -x ELSE x

RECURSIVE GCD(_, _)
GCD(a, b) == IF b = 0 THEN a ELSE GCD(b, a % b)

\* the rational n/d in lowest terms, d /= 0
Rat(n, d) ==
    IF d = 1 THEN <<n, 1>>
    ELSE LET g == GCD(Abs(n), Abs(d))
             s == IF d < 0 THEN -1 ELSE 1
         IN  <<s * (n \div g), s * (d \div g)>>

FromInt(n) == <<n, 1>>
Zero == FromInt(0)
One == FromInt(1)

RAdd(a, b) ==
    IF a[1] = 0 THEN b
    ELSE IF b[1] = 0 THEN a
    ELSE IF a[2] = b[2] THEN Rat(a[1] + b[1], a[2])
    ELSE LET g == GCD(a[2], b[2])
         IN  Rat(a[1] * (b[2] \div g) + b[1] * (a[2] \div g), (a[2] \div g) * b[2])

RNeg(a) == <<-a[1], a[2]>>

RSub(a, b) == RAdd(a, RNeg(b))

RMul(a, b) ==
    IF a[1] = 0 \/ b[1] = 0 THEN Zero
    ELSE LET g1 == IF b[2] = 1 THEN 1 ELSE GCD(Abs(a[1]), b[2])
             g2 == IF a[2] = 1 THEN 1 ELSE GCD(Abs(b[1]), a[2])
         IN  <<(a[1] \div g1) * (b[1] \div g2), (a[2] \div g2) * (b[2] \div g1)>>

\* a / b, b /= 0
RDiv(a, b) ==
    RMul(a, IF b[1] < 0 THEN <<-b[2], -b[1]>> ELSE <<b[2], b[1]>>)

RGt0(a) == a[1] > 0

\* ------------------------------------------------------------ D2Q9 stencil

\* number of dimensions and of stencil directions of Lbgk<2, 9>
N == 2
B == 9

Dirs == 0 .. (B - 1)

\* lattice vectors
C ==
    [i \in Dirs |->
        CASE i = 0 -> <<0, 0>>
          [] i = 1 -> <<1, 0>>
          [] i = 2 -> <<0, 1>>
          [] i = 3 -> <<-1, 0>>
          [] i = 4 -> <<0, -1>>
          [] i = 5 -> <<1, 1>>
          [] i = 6 -> <<-1, 1>>
          [] i = 7 -> <<-1, -1>>
          [] i = 8 -> <<1, -1>>]

\* weights
W ==
    [i \in Dirs |->
        IF i = 0 THEN Rat(4, 9) ELSE IF i <= 4 THEN Rat(1, 9) ELSE Rat(1, 36)]

\* sound speed squared
CS2 == Rat(1, 3)

BoundaryScheme == {"Inflow", "Outflow", "Periodic", "BounceBack", "SpecularReflection"}

\* ------------------------------------------------------------ linear algebra

\* fold(0.0, |acc, (first, second)| acc + first * second)
RECURSIVE dot_fold(_, _, _, _)
dot_fold(acc, a, b, k) ==
    IF k > Len(a) \/ k > Len(b) THEN acc
    ELSE dot_fold(RAdd(acc, RMul(a[k], b[k])), a, b, k + 1)

dot_product(a, b) == dot_fold(Zero, a, b, 1)

\* ------------------------------------------------------------------- state

VARIABLES
    size,                     \* Lbgk::size
    boundary_schemes,         \* Lbgk::boundary_schemes, [dimension][1 = low, 2 = high]
    source_algorithm_values,  \* Lbgk::source_algorithm_values
    algorithm_values,         \* Lbgk::algorithm_values, by flat index
    object,                   \* Lbgk::object, by flat index
    phase,                    \* which step of iterate is running, "idle" between calls
    pos,                      \* the running loop's position
    side,                     \* update_inflows_and_outflows: 2 * dimension + (0 low, 1 high)
    relaxation_time,          \* argument of the running iterate call
    panicked,                 \* an unwrap() failed
    ticks,                    \* iterate calls started
    visited,                  \* history: positions the running loop has visited
    writes,                   \* history: the <<destination, slot, source, direction>> of each write of this tick's streaming, in order
    tick_start,               \* history: algorithm_values when the running iterate was called
    derived_end,              \* history: algorithm_values when calculate_derived returned
    result                    \* the last call since iterate: <<name, position, value returned or passed>>

vars ==
    <<size, boundary_schemes, source_algorithm_values, algorithm_values, object,
      phase, pos, side, relaxation_time, panicked, ticks, visited, writes,
      tick_start, derived_end, result>>

Dims == 1 .. N

RECURSIVE product_from(_, _)
product_from(s, k) == IF k > Len(s) THEN 1 ELSE s[k] * product_from(s, k + 1)

\* size.iter().product()
len == product_from(size, 1)

Cells == 0 .. (len - 1)

\* every in-bounds position
Positions == {p \in [Dims -> 0 .. (MaxSide - 1)] : \A d \in Dims : p[d] < size[d]}

\* ---------------------------------------------------------------- indexing

RECURSIVE index_fold(_, _, _, _, _)
index_fold(acc, multiplier, p, sz, k) ==
    IF k > Len(p) \/ k - 1 > Len(sz) THEN acc
    ELSE index_fold(acc + multiplier * p[k], multiplier * sz[k - 1], p, sz, k + 1)

\* Lbgk::index for a grid of size sz: pos.iter().skip(1) is zipped with size
index_of(p, sz) == index_fold(p[1], sz[1], p, sz, 2)

index(p) == index_of(p, size)

RECURSIVE next_pos_from(_, _, _, _)
next_pos_from(p, dims, sz, k) ==
    IF k > Len(p) THEN <<FALSE, p>>
    ELSE IF dims[k]
         THEN IF p[k] + 1 < sz[k]
              THEN <<TRUE, [p EXCEPT ![k] = p[k] + 1]>>
              ELSE next_pos_from([p EXCEPT ![k] = 0], dims, sz, k + 1)
         ELSE next_pos_from(p, dims, sz, k + 1)

\* next_pos that leaves a coordinate at its last value when it carries
RECURSIVE next_pos_from_keep(_, _, _, _)
next_pos_from_keep(p, dims, sz, k) ==
    IF k > Len(p) THEN <<FALSE, p>>
    ELSE IF dims[k]
         THEN IF p[k] + 1 < sz[k]
              THEN <<TRUE, [p EXCEPT ![k] = p[k] + 1]>>
              ELSE next_pos_from_keep(p, dims, sz, k + 1)
         ELSE next_pos_from_keep(p, dims, sz, k + 1)

next_pos_keep(p, dims) == next_pos_from_keep(p, dims, size, 1)

\* next_pos whose carry starts at the second dimension
next_pos_skip(p, dims) == next_pos_from(p, dims, size, 2)

\* Lbgk::next_pos: <<returned value, position left in pos>>
next_pos(p, dims) == next_pos_from(p, dims, size, 1)

AllDims == [d \in Dims |-> TRUE]
ZeroPos == [d \in Dims |-> 0]

\* ------------------------------------------------------------- equilibrium

AsF32(c) == [d \in DOMAIN c |-> FromInt(c[d])]

\* equilibrium_distributions whose quadratic term is divided by cs2^2, not 2 cs2^2
equilibrium_distributions_cs4(density, velocity) ==
    LET cs2x2 == RAdd(CS2, CS2)
        cs4 == RMul(CS2, CS2)
        u_dot_u == dot_product(velocity, velocity)
    IN  [i \in Dirs |->
            LET c_dot_u == dot_product(AsF32(C[i]), velocity)
            IN  RMul(RMul(W[i], density),
                     RSub(RAdd(RAdd(One, RDiv(c_dot_u, CS2)),
                               RDiv(RMul(c_dot_u, c_dot_u), cs4)),
                          RDiv(u_dot_u, cs2x2)))]

equilibrium_distributions(density, velocity) ==
    LET cs2x2 == RAdd(CS2, CS2)
        cs4 == RMul(CS2, CS2)
        cs4x2 == RAdd(cs4, cs4)
        u_dot_u == dot_product(velocity, velocity)
    IN  [i \in Dirs |->
            LET c_dot_u == dot_product(AsF32(C[i]), velocity)
            IN  RMul(RMul(W[i], density),
                     RSub(RAdd(RAdd(One, RDiv(c_dot_u, CS2)),
                               RDiv(RMul(c_dot_u, c_dot_u), cs4x2)),
                          RDiv(u_dot_u, cs2x2)))]

\* ------------------------------------------------------------ construction

\* grid sizes, initial densities and velocity vectors, relaxation times
Sizes == {sz \in [Dims -> 2 .. MaxSide] : sz[1] = MaxSide /\ sz[2] = MaxSide}
Densities == {FromInt(1)}
Velocities == {<<Rat(1, 2), FromInt(1)>>}
RelaxationTimes == {FromInt(2)}

ZeroDistributions == [i \in Dirs |-> Zero]

\* the cell state new_d2q9 builds from its arguments
source_values(density, velocity) ==
    [distributions |-> equilibrium_distributions(density, velocity),
     collision_distributions |-> ZeroDistributions,
     density |-> density,
     velocity_vector |-> velocity]

new_d2q9(sz, schemes, density, velocity) ==
    /\ size = sz
    /\ boundary_schemes = schemes
    /\ source_algorithm_values = source_values(density, velocity)
    /\ algorithm_values = [k \in 0 .. (product_from(sz, 1) - 1) |-> source_algorithm_values]
    /\ object = [k \in 0 .. (product_from(sz, 1) - 1) |-> FALSE]

Idle ==
    /\ phase = "idle"
    /\ pos = ZeroPos
    /\ side = 0
    /\ relaxation_time = One
    /\ panicked = FALSE
    /\ ticks = 0
    /\ visited = <<>>
    /\ writes = <<>>
    /\ result = <<"none">>

Init ==
    /\ \E sz \in Sizes, density \in Densities, velocity \in Velocities,
          schemes \in [Dims -> [1 .. 2 -> BoundaryScheme]] :
            new_d2q9(sz, schemes, density, velocity)
    /\ Idle
    /\ tick_start = algorithm_values
    /\ derived_end = algorithm_values

\* ------------------------------------------------------- obstacle mutation

\* Lbgk::object
object_at(p) == object[index(p)]

\* set_object that ignores the value passed
set_object_always(p, val) == [object EXCEPT ![index(p)] = TRUE]

\* Lbgk::set_object: the mask after the call
set_object(p, val) == [object EXCEPT ![index(p)] = val]

SetObject(p, val) ==
    /\ phase = "idle"
    /\ ~panicked
    /\ Cardinality({k \in DOMAIN object : set_object(p, val)[k]}) <= MaxObjects
    /\ object' = set_object(p, val)
    /\ result' = <<"set_object", p, val>>
    /\ UNCHANGED <<size, boundary_schemes, source_algorithm_values, algorithm_values,
                   phase, pos, side, relaxation_time, panicked, ticks, visited, writes,
                   tick_start, derived_end>>

\* ------------------------------------------------------------------ iterate

\* entry of Lbgk::iterate: the call of collision_step
Iterate(tau) ==
    /\ phase = "idle"
    /\ ~panicked
    /\ ticks < MaxTicks
    /\ phase' = "collision"
    /\ pos' = ZeroPos
    /\ relaxation_time' = tau
    /\ ticks' = ticks + 1
    /\ visited' = <<>>
    /\ writes' = <<>>
    /\ tick_start' = algorithm_values
    /\ result' = <<"none">>
    /\ UNCHANGED <<size, boundary_schemes, source_algorithm_values, algorithm_values,
                   object, side, panicked, derived_end>>

\* next_pos at the end of one pass of a loop over the whole grid: go on with the
\* loop, or leave it and enter `after`
Sweep(after) ==
    LET np == next_pos(pos, AllDims)
    IN  IF np[1]
        THEN /\ pos' = np[2]
             /\ visited' = Append(visited, pos)
             /\ phase' = phase
        ELSE /\ pos' = ZeroPos
             /\ visited' = <<>>
             /\ phase' = after

\* *f_c = f - (f - f_eq) / relaxation_time
collided(cell, tau) ==
    LET f_eq == equilibrium_distributions(cell.density, cell.velocity_vector)
    IN  [i \in Dirs |->
            RSub(cell.distributions[i],
                 RDiv(RSub(cell.distributions[i], f_eq[i]), tau))]

\* one pass of the loop of collision_step
collision_step(av, p) ==
    IF object[index(p)] THEN av
    ELSE [av EXCEPT ![index(p)].collision_distributions = collided(av[index(p)], relaxation_time)]

CollisionStep ==
    /\ phase = "collision"
    /\ ~panicked
    /\ algorithm_values' = collision_step(algorithm_values, pos)
    /\ Sweep("streaming")
    /\ UNCHANGED <<size, boundary_schemes, source_algorithm_values, object, side,
                   relaxation_time, panicked, ticks, writes, tick_start, derived_end, result>>

\* ---------------------------------------------------------------- streaming

\* Option::None, for a position component and for a stencil index
None == -1

\* edge whose SpecularReflection arm keeps the velocity component
edge_keep(scheme, p, c, d, wrap) ==
    CASE scheme = "Periodic" ->
            [new_pos |-> wrap, new_c |-> c[d], changed |-> FALSE, bounce |-> FALSE]
      [] scheme = "BounceBack" ->
            [new_pos |-> None, new_c |-> c[d], changed |-> FALSE, bounce |-> TRUE]
      [] scheme = "SpecularReflection" ->
            [new_pos |-> p[d], new_c |-> c[d], changed |-> TRUE, bounce |-> FALSE]
      [] OTHER ->
            [new_pos |-> None, new_c |-> c[d], changed |-> FALSE, bounce |-> FALSE]

\* the arm of `match boundary_schemes[..]` taken where the move leaves the grid in
\* dimension d; wrap is the coordinate Periodic goes to
edge(scheme, p, c, d, wrap) ==
    CASE scheme = "Periodic" ->
            [new_pos |-> wrap, new_c |-> c[d], changed |-> FALSE, bounce |-> FALSE]
      [] scheme = "BounceBack" ->
            [new_pos |-> None, new_c |-> c[d], changed |-> FALSE, bounce |-> TRUE]
      [] scheme = "SpecularReflection" ->
            [new_pos |-> p[d], new_c |-> -c[d], changed |-> TRUE, bounce |-> FALSE]
      [] OTHER ->
            [new_pos |-> None, new_c |-> c[d], changed |-> FALSE, bounce |-> FALSE]

\* dim_move whose Periodic sides wrap to the coordinate of the side that was left
dim_move_same_side(p, c, d) ==
    LET val == p[d] + c[d]
    IN  IF val < 0 THEN edge(boundary_schemes[d][1], p, c, d, 0)
        ELSE IF val >= size[d] THEN edge(boundary_schemes[d][2], p, c, d, size[d] - 1)
        ELSE [new_pos |-> val, new_c |-> c[d], changed |-> FALSE, bounce |-> FALSE]

\* `match pos as isize + c` for dimension d
dim_move(p, c, d) ==
    LET val == p[d] + c[d]
    IN  IF val < 0 THEN edge(boundary_schemes[d][1], p, c, d, size[d] - 1)
        ELSE IF val >= size[d] THEN edge(boundary_schemes[d][2], p, c, d, 0)
        ELSE [new_pos |-> val, new_c |-> c[d], changed |-> FALSE, bounce |-> FALSE]

\* position that stops the search before the last lattice vector
position_short(v) ==
    IF \E j \in Dirs : j < B - 1 /\ C[j] = v
    THEN CHOOSE j \in Dirs : C[j] = v /\ \A k \in Dirs : k < j => C[k] /= v
    ELSE None

\* lattice_parameters.iter().position(|l| l.lattice_vector == v)
position(v) ==
    IF \E j \in Dirs : C[j] = v
    THEN CHOOSE j \in Dirs : C[j] = v /\ \A k \in Dirs : k < j => C[k] /= v
    ELSE None

\* <<F(1), ..., F(n)>>
RECURSIVE tabulate(_, _)
tabulate(F(_), n) == IF n = 0 THEN <<>> ELSE Append(tabulate(F, n - 1), F(n))

\* where the population of direction i of the cell at p goes: the body of the loop
\* over lattice_parameters up to the write
move(p, i) ==
    LET c == C[i]
        dm_at(d) == dim_move(p, c, d)
        dm == tabulate(dm_at, N)
        edge_at(d) == dm[d].new_pos
        edge_pos == tabulate(edge_at, N)
        hit == (\A d \in Dims : edge_pos[d] /= None) /\ object[index(edge_pos)]
        bounce_back == (\E d \in Dims : dm[d].bounce) \/ hit
        new_pos == IF bounce_back THEN p ELSE edge_pos
        neg_at(d) == -c[d]
        new_c_at(d) == dm[d].new_c
        changed == bounce_back \/ \E d \in Dims : dm[d].changed
        some == \A d \in Dims : new_pos[d] /= None
    IN  [some |-> some,
         new_pos |-> new_pos,
         new_i |-> IF ~some THEN i
                   ELSE IF bounce_back THEN position(tabulate(neg_at, N))
                   ELSE IF changed THEN position(tabulate(new_c_at, N))
                   ELSE i,
         bounce_back |-> bounce_back,
         edge_pos |-> edge_pos]

\* the loop over lattice_parameters for the cell at p, from direction i on, up to
\* a failing unwrap(): the values written, the slots written (each with the cell
\* and direction written from), and whether an unwrap() failed
RECURSIVE stream_from(_, _, _, _)
stream_from(av, wr, p, i) ==
    IF i >= B THEN [av |-> av, writes |-> wr, failed |-> FALSE]
    ELSE LET m == move(p, i)
         IN  IF ~m.some THEN stream_from(av, wr, p, i + 1)
             ELSE IF m.new_i = None THEN [av |-> av, writes |-> wr, failed |-> TRUE]
             ELSE stream_from(
                      [av EXCEPT ![index(m.new_pos)].distributions[m.new_i] =
                                     av[index(p)].collision_distributions[i]],
                      Append(wr, <<index(m.new_pos), m.new_i, index(p), i>>),
                      p, i + 1)

\* one pass of the loop of streaming_step
streaming_step(av, wr, p) ==
    IF object[index(p)] THEN [av |-> av, writes |-> wr, failed |-> FALSE]
    ELSE stream_from(av, wr, p, 0)

StreamingStep ==
    /\ phase = "streaming"
    /\ ~panicked
    /\ LET r == streaming_step(algorithm_values, writes, pos)
       IN  /\ algorithm_values' = r.av
           /\ writes' = r.writes
           /\ panicked' = r.failed
           /\ IF r.failed THEN UNCHANGED <<phase, pos, visited>> ELSE Sweep("derived")
    /\ UNCHANGED <<size, boundary_schemes, source_algorithm_values, object, side,
                   relaxation_time, ticks, tick_start, derived_end, result>>

\* ------------------------------------------------------- derived quantities

\* algorithm_values.distributions.iter().sum()
RECURSIVE sum_from(_, _)
sum_from(f, i) == IF i < 0 THEN Zero ELSE RAdd(sum_from(f, i - 1), f[i])

\* the momentum sum taking the first component of every lattice vector
RECURSIVE momentum_first(_, _, _)
momentum_first(f, d, i) ==
    IF i < 0 THEN Zero ELSE RAdd(momentum_first(f, d, i - 1), RMul(FromInt(C[i][1]), f[i]))

\* component d of the sum of c as f32 * f over the directions 0 .. i
RECURSIVE momentum_from(_, _, _)
momentum_from(f, d, i) ==
    IF i < 0 THEN Zero
    ELSE RAdd(momentum_from(f, d, i - 1), RMul(FromInt(C[i][d]), f[i]))

\* derived that leaves the momentum undivided
derived_undivided(cell) ==
    LET density == sum_from(cell.distributions, B - 1)
    IN  [cell EXCEPT
            !.density = density,
            !.velocity_vector =
                IF RGt0(density)
                THEN [d \in Dims |-> momentum_from(cell.distributions, d, B - 1)]
                ELSE [d \in Dims |-> Zero]]

derived(cell) ==
    LET density == sum_from(cell.distributions, B - 1)
    IN  [cell EXCEPT
            !.density = density,
            !.velocity_vector =
                IF RGt0(density)
                THEN [d \in Dims |-> RDiv(momentum_from(cell.distributions, d, B - 1), density)]
                ELSE [d \in Dims |-> Zero]]

\* one pass of the loop of calculate_derived
calculate_derived(av, p) ==
    IF object[index(p)] THEN av ELSE [av EXCEPT ![index(p)] = derived(av[index(p)])]

\* where the loop of boundary side k of update_inflows_and_outflows starts
side_start(k) ==
    IF k >= 2 * N THEN ZeroPos
    ELSE [d \in Dims |-> IF d = (k \div 2) + 1 /\ k % 2 = 1 THEN size[d] - 1 ELSE 0]

DerivedStep ==
    /\ phase = "derived"
    /\ ~panicked
    /\ algorithm_values' = calculate_derived(algorithm_values, pos)
    /\ LET np == next_pos(pos, AllDims)
       IN  IF np[1]
           THEN /\ pos' = np[2]
                /\ visited' = Append(visited, pos)
                /\ UNCHANGED <<phase, side, derived_end>>
           ELSE /\ pos' = side_start(0)
                /\ visited' = <<>>
                /\ phase' = "inout"
                /\ side' = 0
                /\ derived_end' = algorithm_values'
    /\ UNCHANGED <<size, boundary_schemes, source_algorithm_values, object,
                   relaxation_time, panicked, ticks, writes, tick_start, result>>

\* ------------------------------------------------- inflows and outflows

side_dim(k) == (k \div 2) + 1
side_scheme(k) == boundary_schemes[side_dim(k)][(k % 2) + 1]

\* other_pos that steps away from the grid
other_pos_outward(k, p) == [p EXCEPT ![side_dim(k)] = IF k % 2 = 0 THEN @ - 1 ELSE @ + 1]

\* other_pos that stays on the boundary hyperplane
other_pos_self(k, p) == p

\* other_pos[i] += 1 on the low side, other_pos[i] -= 1 on the high side
other_pos(k, p) == [p EXCEPT ![side_dim(k)] = IF k % 2 = 0 THEN @ + 1 ELSE @ - 1]

\* update_cell whose Inflow arm restores the populations only
update_cell_partial(av, k, p) ==
    CASE side_scheme(k) = "Inflow" ->
            [av EXCEPT ![index(p)].distributions = source_algorithm_values.distributions]
      [] side_scheme(k) = "Outflow" -> [av EXCEPT ![index(p)] = av[index(other_pos(k, p))]]
      [] OTHER -> av

\* one pass of the loop of boundary side k, at position p
update_cell(av, k, p) ==
    CASE side_scheme(k) = "Inflow" -> [av EXCEPT ![index(p)] = source_algorithm_values]
      [] side_scheme(k) = "Outflow" -> [av EXCEPT ![index(p)] = av[index(other_pos(k, p))]]
      [] OTHER -> av

\* one pass of a loop of update_inflows_and_outflows, or one arm `_ => {}`
UpdateStep ==
    /\ phase = "inout"
    /\ ~panicked
    /\ algorithm_values' = update_cell(algorithm_values, side, pos)
    /\ LET np == next_pos(pos, [d \in Dims |-> d /= side_dim(side)])
       IN  IF side_scheme(side) \in {"Inflow", "Outflow"} /\ np[1]
           THEN /\ pos' = np[2]
                /\ visited' = Append(visited, pos)
                /\ UNCHANGED <<phase, side>>
           ELSE /\ pos' = side_start(side + 1)
                /\ visited' = <<>>
                /\ side' = IF side + 1 = 2 * N THEN 0 ELSE side + 1
                /\ phase' = IF side + 1 = 2 * N THEN "idle" ELSE "inout"
    /\ UNCHANGED <<size, boundary_schemes, source_algorithm_values, object,
                   relaxation_time, panicked, ticks, writes, tick_start, derived_end, result>>

\* ------------------------------------------------------------------ queries

\* Lbgk::density
density(p) == algorithm_values[index(p)].density

\* Lbgk::velocity_vector
velocity_vector(p) == algorithm_values[index(p)].velocity_vector

\* Lbgk::velocity: u.dot_product(u).sqrt(), kept as the square root of a rational
velocity(p) == <<"sqrt", dot_product(velocity_vector(p), velocity_vector(p))>>

\* vorticity that takes both differences along the first dimension
vorticity_same_axis(p) ==
    IF \A d \in Dims : 1 <= p[d] /\ p[d] < size[d] - 1
    THEN RAdd(RSub(RSub(RAdd(Zero, velocity_vector(<<p[1] + 1, p[2]>>)[2]),
                        velocity_vector(<<p[1] - 1, p[2]>>)[2]),
                   velocity_vector(<<p[1] + 1, p[2]>>)[1]),
              velocity_vector(<<p[1] - 1, p[2]>>)[1])
    ELSE Zero

\* the positions other_pos takes in Lbgk::vorticity for N = 2
vorticity_reads(p) ==
    IF \A d \in Dims : 1 <= p[d] /\ p[d] < size[d] - 1
    THEN {<<p[1] + 1, p[2]>>, <<p[1] - 1, p[2]>>, <<p[1], p[2] + 1>>, <<p[1], p[2] - 1>>}
    ELSE {}

\* Lbgk::vorticity for N = 2
vorticity(p) ==
    IF \A d \in Dims : 1 <= p[d] /\ p[d] < size[d] - 1
    THEN RAdd(RSub(RSub(RAdd(Zero, velocity_vector(<<p[1] + 1, p[2]>>)[2]),
                        velocity_vector(<<p[1] - 1, p[2]>>)[2]),
                   velocity_vector(<<p[1], p[2] + 1>>)[1]),
              velocity_vector(<<p[1], p[2] - 1>>)[1])
    ELSE Zero

\* a query that clears the scratch populations of the cell it reads
Query_clearing(name, p, value) ==
    /\ phase = "idle"
    /\ ~panicked
    /\ result' = <<name, p, value>>
    /\ algorithm_values' =
            [algorithm_values EXCEPT ![index(p)].collision_distributions = ZeroDistributions]
    /\ UNCHANGED <<size, boundary_schemes, source_algorithm_values,
                   object, phase, pos, side, relaxation_time, panicked, ticks, visited,
                   writes, tick_start, derived_end>>

\* a call of a &self method between iterate calls
Query(name, p, value) ==
    /\ phase = "idle"
    /\ ~panicked
    /\ result' = <<name, p, value>>
    /\ UNCHANGED <<size, boundary_schemes, source_algorithm_values, algorithm_values,
                   object, phase, pos, side, relaxation_time, panicked, ticks, visited,
                   writes, tick_start, derived_end>>

Density(p) == Query("density", p, density(p))
VelocityVector(p) == Query("velocity_vector", p, velocity_vector(p))
Velocity(p) == Query("velocity", p, velocity(p))
Vorticity(p) == Query("vorticity", p, vorticity(p))
Object(p) == Query("object", p, object_at(p))

\* ------------------------------------------------------------ specification

\* positions the obstacle mask is set at and cells are read at
ObjectPositions == {p \in Positions : \A d \in Dims : p[d] = p[1]}

Step ==
    \/ CollisionStep
    \/ StreamingStep
    \/ DerivedStep
    \/ UpdateStep

\* the driver's protocol: the obstacle mask is set before the first iterate call
Next ==
    \/ \E p \in ObjectPositions, val \in BOOLEAN : ticks = 0 /\ SetObject(p, val)
    \/ \E tau \in RelaxationTimes : Iterate(tau)
    \/ Step

Spec == Init /\ [][Next]_vars

\* a grid with every side Periodic, whose obstacle mask changes between iterate
\* calls and whose cells are read before an iterate call
AllPeriodic == \A d \in Dims, s \in 1 .. 2 : boundary_schemes[d][s] = "Periodic"

PeriodicDensities == {FromInt(0), FromInt(1)}
PeriodicRelaxationTimes == {FromInt(1), FromInt(2)}

InitPeriodic ==
    /\ \E sz \in Sizes, rho \in PeriodicDensities, u \in Velocities :
            new_d2q9(sz, [d \in Dims |-> [s \in 1 .. 2 |-> "Periodic"]], rho, u)
    /\ Idle
    /\ tick_start = algorithm_values
    /\ derived_end = algorithm_values

NextPeriodic ==
    \/ \E p \in ObjectPositions, val \in BOOLEAN : SetObject(p, val)
    \/ \E tau \in PeriodicRelaxationTimes : Iterate(tau)
    \/ Step
    \/ \E p \in ObjectPositions : ticks < MaxTicks /\ Density(p)
    \/ \E p \in ObjectPositions : ticks < MaxTicks /\ VelocityVector(p)
    \/ \E p \in ObjectPositions : ticks < MaxTicks /\ Velocity(p)
    \/ \E p \in ObjectPositions : ticks < MaxTicks /\ Vorticity(p)
    \/ \E p \in ObjectPositions : ticks < MaxTicks /\ Object(p)

SpecPeriodic == InitPeriodic /\ [][NextPeriodic]_vars

\* a channel: Inflow or Outflow on the sides of the first dimension, one scheme on
\* both sides of the second, built with a positive, zero or negative density
ChannelSchemes ==
    {sch \in [Dims -> [1 .. 2 -> BoundaryScheme]] :
        /\ \A s \in 1 .. 2 : sch[1][s] \in {"Inflow", "Outflow"}
        /\ sch[2][1] = sch[2][2]
        /\ sch[2][1] \in {"Periodic", "BounceBack", "SpecularReflection"}}

ChannelDensities == {FromInt(-1), FromInt(0), FromInt(1)}

InitChannel ==
    /\ \E sz \in Sizes, rho \in ChannelDensities, u \in Velocities, sch \in ChannelSchemes :
            new_d2q9(sz, sch, rho, u)
    /\ Idle
    /\ tick_start = algorithm_values
    /\ derived_end = algorithm_values

SpecChannel == InitChannel /\ [][Next]_vars

\* grids of every size read by vorticity after an obstacle was set anywhere: all
\* sides Periodic, or a channel with SpecularReflection walls
VorticitySizes == [Dims -> 2 .. MaxSide]

VorticitySchemes ==
    {[d \in Dims |-> [s \in 1 .. 2 |-> "Periodic"]],
     <<<<"Inflow", "Outflow">>, <<"SpecularReflection", "SpecularReflection">>>>}

InitVorticity ==
    /\ \E sz \in VorticitySizes, rho \in Densities, u \in Velocities, sch \in VorticitySchemes :
            new_d2q9(sz, sch, rho, u)
    /\ Idle
    /\ tick_start = algorithm_values
    /\ derived_end = algorithm_values

NextVorticity ==
    \/ \E p \in Positions, val \in BOOLEAN : ticks = 0 /\ SetObject(p, val)
    \/ \E tau \in RelaxationTimes : Iterate(tau)
    \/ Step
    \/ \E p \in Positions : ticks < MaxTicks /\ Vorticity(p)

SpecVorticity == InitVorticity /\ [][NextVorticity]_vars

\* grids of every size from 2 x 2 on whose two dimensions have the same pair of schemes
BoundsSchemes == {sch \in [Dims -> [1 .. 2 -> BoundaryScheme]] : sch[1] = sch[2]}

InitBounds ==
    /\ \E sz \in [Dims -> 2 .. MaxSide], rho \in Densities, u \in Velocities,
          sch \in BoundsSchemes :
            new_d2q9(sz, sch, rho, u)
    /\ Idle
    /\ tick_start = algorithm_values
    /\ derived_end = algorithm_values

SpecBounds == InitBounds /\ [][Next]_vars

\* the flat index of positions of grids of two and three dimensions
MaxDims == 3

IndexSizes == UNION {[1 .. n -> 2 .. MaxSide] : n \in 2 .. MaxDims}

InitIndex ==
    /\ size \in IndexSizes
    /\ pos = [d \in DOMAIN size |-> 0]
    /\ result = <<"none">>
    /\ boundary_schemes = <<>>
    /\ source_algorithm_values = <<>>
    /\ algorithm_values = <<>>
    /\ object = <<>>
    /\ phase = "idle"
    /\ side = 0
    /\ relaxation_time = One
    /\ panicked = FALSE
    /\ ticks = 0
    /\ visited = <<>>
    /\ writes = <<>>
    /\ tick_start = <<>>
    /\ derived_end = <<>>

\* a call of index at the current position
Index ==
    /\ result' = <<"index", pos, index(pos)>>
    /\ UNCHANGED <<size, boundary_schemes, source_algorithm_values, algorithm_values,
                   object, phase, pos, side, relaxation_time, panicked, ticks, visited,
                   writes, tick_start, derived_end>>

\* a call of next_pos over all dimensions
NextPos ==
    /\ next_pos(pos, [d \in DOMAIN size |-> TRUE])[1]
    /\ pos' = next_pos(pos, [d \in DOMAIN size |-> TRUE])[2]
    /\ UNCHANGED <<size, boundary_schemes, source_algorithm_values, algorithm_values,
                   object, phase, side, relaxation_time, panicked, ticks, visited,
                   writes, tick_start, derived_end, result>>

NextIndex ==
    \/ Index
    \/ NextPos

SpecIndex == InitIndex /\ [][NextIndex]_vars

\* the dims argument of the loop the cursor is in: every dimension in the loops over
\* the grid, every dimension but the one of the side in update_inflows_and_outflows
sweep_dims == [d \in DOMAIN size |-> phase /= "inout" \/ d /= side_dim(side)]

\* where that loop starts: at zero, on the high side at size - 1 in its dimension
sweep_start ==
    [d \in DOMAIN size |->
        IF phase = "inout" /\ d = side_dim(side) /\ side % 2 = 1 THEN size[d] - 1 ELSE 0]

\* a loop over the grid or over one boundary hyperplane, about to begin
InitSweep ==
    /\ size \in IndexSizes
    /\ phase \in {"derived", "inout"}
    /\ side \in 0 .. (2 * Len(size) - 1)
    /\ phase = "derived" => side = 0
    /\ pos = sweep_start
    /\ result = <<"none">>
    /\ boundary_schemes = <<>>
    /\ source_algorithm_values = <<>>
    /\ algorithm_values = <<>>
    /\ object = <<>>
    /\ relaxation_time = One
    /\ panicked = FALSE
    /\ ticks = 0
    /\ visited = <<>>
    /\ writes = <<>>
    /\ tick_start = <<>>
    /\ derived_end = <<>>

\* the call of next_pos at the end of one pass of the loop; the loop is left when it
\* returned false
SweepNext ==
    /\ result[1] = "next_pos" => result[3]
    /\ pos' = next_pos(pos, sweep_dims)[2]
    /\ visited' = Append(visited, pos)
    /\ result' = <<"next_pos", pos, next_pos(pos, sweep_dims)[1]>>
    /\ UNCHANGED <<size, boundary_schemes, source_algorithm_values, algorithm_values,
                   object, phase, side, relaxation_time, panicked, ticks, writes,
                   tick_start, derived_end>>

SpecSweep == InitSweep /\ [][SweepNext]_vars

\* ------------------------------------------------------------------ claims

\* the positions a sweep has been at, the current one included
Swept == {visited[n] : n \in 1 .. Len(visited)} \union {pos}

\* the cursor is at the last position of a sweep that was at every position once
SweepDone == Len(visited) + 1 = len /\ Swept = Positions

PhaseOrder ==
    {<<"idle", "collision">>, <<"collision", "streaming">>, <<"streaming", "derived">>,
     <<"derived", "inout">>, <<"inout", "idle">>}

Distributions(av) == [k \in DOMAIN av |-> av[k].distributions]

CollisionDistributions(av) == [k \in DOMAIN av |-> av[k].collision_distributions]

\* C1: iterate runs collision, streaming, derived quantities and inflow/outflow
\* maintenance once each in that order; a phase ends only when its sweep has been at
\* every position once (the boundary phase: when all 2N sides are done); when
\* streaming begins every non-obstacle cell holds the collision_distributions of this
\* tick, and distributions are written by streaming and boundary maintenance only
C1_PhaseBarrier ==
    [][/\ phase' /= phase => <<phase, phase'>> \in PhaseOrder
       /\ phase' /= phase /\ phase \in {"collision", "streaming", "derived"} => SweepDone
       /\ phase = "inout" /\ phase' = "idle" => side = 2 * N - 1
       /\ phase = "collision" /\ phase' = "streaming" =>
              \A p \in Positions : ~object_at(p) =>
                  algorithm_values'[index(p)].collision_distributions
                      = collided(tick_start[index(p)], relaxation_time)
       /\ Distributions(algorithm_values') /= Distributions(algorithm_values) =>
              phase \in {"streaming", "inout"}
       /\ CollisionDistributions(algorithm_values') /= CollisionDistributions(algorithm_values) =>
              phase \in {"collision", "inout"}]_vars

\* an iterate call has returned on a grid with an obstacle
C1_Witness == phase = "idle" /\ ticks = 1 /\ \E k \in Cells : object[k]

OnSide(p, d, s) == p[d] = IF s = 1 THEN 0 ELSE size[d] - 1

InOut == {"Inflow", "Outflow"}

\* C3: between iterate calls, after any number of them, every cell on the boundary
\* hyperplane of a side configured Inflow holds the source state of the constructor
C3_InflowPinned ==
    phase = "idle" =>
        \A d \in Dims, s \in 1 .. 2 : boundary_schemes[d][s] = "Inflow" =>
            \A p \in Positions : OnSide(p, d, s) =>
                algorithm_values[index(p)] = source_algorithm_values

\* an iterate call has returned and restored an Inflow cell that streaming had changed
C3_Witness ==
    /\ phase = "idle"
    /\ ticks >= 1
    /\ \E d \in Dims, s \in 1 .. 2, p \in Positions :
            /\ boundary_schemes[d][s] = "Inflow"
            /\ OnSide(p, d, s)
            /\ derived_end[index(p)] /= source_algorithm_values
            /\ algorithm_values[index(p)] = source_algorithm_values

\* the cell next to p towards the interior of side s of dimension d
neighbour(p, d, s) == [p EXCEPT ![d] = IF s = 1 THEN @ + 1 ELSE @ - 1]

\* p is on an Inflow or Outflow side other than side s of dimension d
OnOtherInOut(p, d, s) ==
    \E e \in Dims, t \in 1 .. 2 :
        <<e, t>> /= <<d, s>> /\ boundary_schemes[e][t] \in InOut /\ OnSide(p, e, t)

WrittenSlots == {<<writes[n][1], writes[n][2]>> : n \in 1 .. Len(writes)}

\* C6 as stated: no two (source cell, direction) pairs of a streaming pass write the
\* same (destination cell, direction index) slot, whatever the boundary schemes
C6_NoSlotWrittenTwice == Cardinality(WrittenSlots) = Len(writes)

\* a dimension with one side Periodic and the opposite side reflecting
MixedPeriodic ==
    \E d \in Dims, s \in 1 .. 2 :
        /\ boundary_schemes[d][s] = "Periodic"
        /\ boundary_schemes[d][3 - s] \in {"BounceBack", "SpecularReflection"}

\* the clash is confined to the grids with such a dimension
NoSlotWrittenTwiceUnmixed == ~MixedPeriodic => C6_NoSlotWrittenTwice

RECURSIVE total_density(_, _)
total_density(av, k) == IF k < 0 THEN Zero ELSE RAdd(total_density(av, k - 1), av[k].density)

\* the sum of density over all cells
TotalDensity(av) == total_density(av, len - 1)

NoObstacle == \A k \in Cells : ~object[k]

\* the step on which an iterate call returns
Returns == phase = "inout" /\ phase' = "idle"

\* C2: on a grid with every side Periodic and no obstacle cell, the sum of density
\* over all cells when an iterate call returns equals the sum when it was called
C2_MassConserved ==
    [][Returns /\ AllPeriodic /\ NoObstacle =>
          TotalDensity(algorithm_values') = TotalDensity(tick_start)]_vars

\* an unobstructed all-Periodic tick is about to return on a field whose densities
\* differ from cell to cell and have changed in this tick
C2_Witness ==
    /\ phase = "inout"
    /\ AllPeriodic
    /\ NoObstacle
    /\ \E k \in Cells : algorithm_values[k].density /= algorithm_values[0].density
    /\ \E k \in Cells : algorithm_values[k].density /= tick_start[k].density
    /\ TotalDensity(algorithm_values) = TotalDensity(tick_start)

\* every cell holds the state of cell 0, whose populations are at equilibrium
UniformEquilibrium(av) ==
    /\ \A k \in DOMAIN av :
            /\ av[k].density = av[0].density
            /\ av[k].velocity_vector = av[0].velocity_vector
            /\ av[k].distributions = av[0].distributions
    /\ av[0].distributions = equilibrium_distributions(av[0].density, av[0].velocity_vector)

\* the tick left distributions, density and velocity_vector of every cell as they
\* were, and collision_distributions equal to distributions
FixedPoint(before, after) ==
    \A k \in DOMAIN after :
        /\ after[k].distributions = before[k].distributions
        /\ after[k].density = before[k].density
        /\ after[k].velocity_vector = before[k].velocity_vector
        /\ after[k].collision_distributions = after[k].distributions

\* C7 as stated: on an unobstructed all-Periodic grid a uniform equilibrium field is
\* left unchanged by an iterate call
C7_EquilibriumFixed ==
    [][Returns /\ AllPeriodic /\ NoObstacle /\ UniformEquilibrium(tick_start) =>
          FixedPoint(tick_start, algorithm_values')]_vars

\* C7: on an unobstructed all-Periodic grid a uniform equilibrium field of density
\* greater than 0 is left unchanged by an iterate call
C7_EquilibriumFixedPositive ==
    [][/\ Returns /\ AllPeriodic /\ NoObstacle /\ UniformEquilibrium(tick_start)
       /\ RGt0(tick_start[0].density)
       => FixedPoint(tick_start, algorithm_values')]_vars

\* an unobstructed all-Periodic tick that began on a uniform equilibrium field of
\* positive density and non-zero velocity has collided and streamed every cell
C7_Witness ==
    /\ phase = "inout"
    /\ AllPeriodic
    /\ NoObstacle
    /\ UniformEquilibrium(tick_start)
    /\ RGt0(tick_start[0].density)
    /\ tick_start[0].velocity_vector /= <<Zero, Zero>>
    /\ tick_start[0].collision_distributions /= tick_start[0].distributions
    /\ FixedPoint(tick_start, algorithm_values)

\* the product of the sizes of the dimensions before d
RECURSIVE stride(_, _)
stride(sz, d) == IF d <= 1 THEN 1 ELSE sz[d - 1] * stride(sz, d - 1)

\* pos[0] + size[0]*pos[1] + size[0]*size[1]*pos[2] + ...
RECURSIVE row_major(_, _, _)
row_major(p, sz, d) == IF d < 1 THEN 0 ELSE row_major(p, sz, d - 1) + stride(sz, d) * p[d]

InBounds(sz) == {p \in [DOMAIN sz -> 0 .. (MaxSide - 1)] : \A d \in DOMAIN sz : p[d] < sz[d]}

\* C8: index(pos) is pos[0] + size[0]*pos[1] + size[0]*size[1]*pos[2] + ..., and no
\* other in-bounds position of the grid has the index index(pos) returned
C8_IndexRowMajor ==
    result[1] = "index" =>
        /\ result[3] = row_major(result[2], size, Len(size))
        /\ \A q \in InBounds(size) : index(q) = result[3] => q = result[2]

QueryNames == {"density", "velocity_vector", "velocity", "vorticity", "object"}

\* C9: a step that returns from density, velocity_vector, velocity, vorticity or
\* object leaves every cell's state, the obstacle mask and the configuration as they
\* were, so the iterate call that follows starts from the state it would have had
C9_QueriesChangeNothing ==
    [][result'[1] \in QueryNames =>
          /\ algorithm_values' = algorithm_values
          /\ object' = object
          /\ source_algorithm_values' = source_algorithm_values
          /\ size' = size
          /\ boundary_schemes' = boundary_schemes]_vars

\* vorticity has returned a non-zero value between two iterate calls
C9_Witness ==
    /\ result[1] = "vorticity"
    /\ result[3] /= Zero
    /\ ticks = 1
    /\ phase = "idle"

\* C10: a freshly constructed grid has no obstacle; set_object(pos, val) makes
\* object(pos) return val and leaves the flag of every other position and the state
\* of every cell as they were
C10_SetObject ==
    /\ (ticks = 0 /\ result = <<"none">> => \A p \in Positions : ~object_at(p))
    /\ [][result'[1] = "set_object" =>
             /\ object'[index(result'[2])] = result'[3]
             /\ \A q \in Positions \ {result'[2]} : object'[index(q)] = object[index(q)]
             /\ algorithm_values' = algorithm_values]_vars

\* set_object has set the flag of a cell whose state an iterate call had changed
C10_Witness ==
    /\ result[1] = "set_object"
    /\ result[3] = TRUE
    /\ ticks >= 1
    /\ object_at(result[2])
    /\ algorithm_values[index(result[2])] /= source_algorithm_values

\* the side of dimension d that the move of direction i from p leaves the grid
\* across: 1 low, 2 high, 0 when it stays inside in that dimension
crossed(p, i, d) ==
    IF p[d] + C[i][d] < 0 THEN 1 ELSE IF p[d] + C[i][d] >= size[d] THEN 2 ELSE 0

\* the move of direction i from p leaves the grid across a side configured scheme
Crosses(p, i, scheme) ==
    \E d \in Dims : crossed(p, i, d) /= 0 /\ boundary_schemes[d][crossed(p, i, d)] = scheme

\* the move of direction i from p leaves the grid across sides of these schemes only
CrossesOnly(p, i, schemes) ==
    \A d \in Dims : crossed(p, i, d) /= 0 => boundary_schemes[d][crossed(p, i, d)] \in schemes

\* the wrapped or specularly adjusted destination, None where a crossed side gives none
adjusted(p, i) ==
    [d \in Dims |->
        IF crossed(p, i, d) = 0 THEN p[d] + C[i][d]
        ELSE IF boundary_schemes[d][crossed(p, i, d)] = "Periodic"
             THEN (IF crossed(p, i, d) = 1 THEN size[d] - 1 ELSE 0)
        ELSE IF boundary_schemes[d][crossed(p, i, d)] = "SpecularReflection" THEN p[d]
        ELSE None]

HasDestination(p, i) == \A d \in Dims : adjusted(p, i)[d] /= None

\* the move is a reflection: it crosses a BounceBack side or lands on an obstacle
Reflected(p, i) ==
    Crosses(p, i, "BounceBack") \/ (HasDestination(p, i) /\ object_at(adjusted(p, i)))

\* the direction index whose vector is c_i with every component negated
opposite(i) == CHOOSE j \in Dirs : \A d \in Dims : C[j][d] = -C[i][d]

\* the streaming pass has just ended
StreamingEnded == phase = "derived" /\ visited = <<>> /\ pos = ZeroPos

\* C11: when the streaming pass ends, for every non-obstacle cell P and direction i
\* whose move is a reflection, the slot of P at the fully negated direction holds
\* collision_distributions[P][i]
C11_BounceBackReturns ==
    StreamingEnded =>
        \A p \in Positions, i \in Dirs :
            ~object_at(p) /\ Reflected(p, i) =>
                algorithm_values[index(p)].distributions[opposite(i)]
                    = algorithm_values[index(p)].collision_distributions[i]

\* the same, on the grids without a dimension that pairs Periodic with a reflecting side
BounceBackReturnsUnmixed == ~MixedPeriodic => C11_BounceBackReturns

\* the move of direction i from p leaves the grid in some dimension
Leaves(p, i) == \E d \in Dims : crossed(p, i, d) /= 0

\* the direction index whose vector is c_i with the crossed dimensions' components negated
mirrored(p, i) ==
    CHOOSE j \in Dirs :
        \A d \in Dims : C[j][d] = IF crossed(p, i, d) /= 0 THEN -C[i][d] ELSE C[i][d]

\* the streaming pass writes from direction i of p to slot j of the cell at q
Written(wr, q, j, p, i) == \E n \in 1 .. Len(wr) : wr[n] = <<index(q), j, index(p), i>>

\* the move of direction i from non-obstacle p leaves the grid across
\* SpecularReflection sides only and its adjusted destination is no obstacle
SpecularMove(p, i) ==
    /\ ~object_at(p)
    /\ Leaves(p, i)
    /\ CrossesOnly(p, i, {"SpecularReflection"})
    /\ ~object_at(adjusted(p, i))

\* C12: the streaming pass of a non-obstacle cell P writes, for every direction i
\* whose move leaves the grid across SpecularReflection sides only and whose adjusted
\* destination is no obstacle, collision_distributions[P][i] to the cell with P's
\* coordinate in the crossed dimensions and P + c_i in the others, at the direction
\* index of c_i with the crossed components negated
C12_SpecularWrite ==
    [][phase = "streaming" /\ ~panicked' =>
          \A i \in Dirs : SpecularMove(pos, i) =>
              /\ Written(writes', adjusted(pos, i), mirrored(pos, i), pos, i)
              /\ algorithm_values'[index(adjusted(pos, i))].distributions[mirrored(pos, i)]
                     = algorithm_values[index(pos)].collision_distributions[i]]_vars

\* the streaming pass has reflected a diagonal move at a corner of two
\* SpecularReflection sides of a grid with an obstacle
C12_Witness ==
    /\ phase = "derived"
    /\ \E k \in Cells : object[k]
    /\ \E p \in Positions, i \in Dirs :
            /\ SpecularMove(p, i)
            /\ \A d \in Dims : crossed(p, i, d) /= 0
            /\ Written(writes, adjusted(p, i), mirrored(p, i), p, i)

\* the move of direction i from non-obstacle p leaves the grid across Periodic sides
\* only and its wrapped destination is no obstacle
PeriodicMove(p, i) ==
    /\ ~object_at(p)
    /\ Leaves(p, i)
    /\ CrossesOnly(p, i, {"Periodic"})
    /\ ~object_at(adjusted(p, i))

\* the destination of a move across Periodic sides: size-1 in a dimension left on the
\* low side, 0 in one left on the high side, P + c_i in the others
wrapped(p, i) ==
    [d \in Dims |->
        IF crossed(p, i, d) = 1 THEN size[d] - 1
        ELSE IF crossed(p, i, d) = 2 THEN 0
        ELSE p[d] + C[i][d]]

\* C13: the streaming pass of a non-obstacle cell P writes, for every direction i
\* whose move leaves the grid across Periodic sides only and whose wrapped
\* destination is no obstacle, collision_distributions[P][i] to slot i of the cell at
\* the wrapped destination
C13_PeriodicWrite ==
    [][phase = "streaming" /\ ~panicked' =>
          \A i \in Dirs : PeriodicMove(pos, i) =>
              /\ Written(writes', wrapped(pos, i), i, pos, i)
              /\ algorithm_values'[index(wrapped(pos, i))].distributions[i]
                     = algorithm_values[index(pos)].collision_distributions[i]]_vars

\* the streaming pass has wrapped a diagonal move around both dimensions on a grid
\* with an obstacle
C13_Witness ==
    /\ phase = "derived"
    /\ \E k \in Cells : object[k]
    /\ \E p \in Positions, i \in Dirs :
            /\ PeriodicMove(p, i)
            /\ \A d \in Dims : crossed(p, i, d) /= 0
            /\ Written(writes, wrapped(p, i), i, p, i)

\* p is on the boundary hyperplane of a side configured Inflow or Outflow
OnInOut(p) ==
    \E d \in Dims, t \in 1 .. 2 : boundary_schemes[d][t] \in InOut /\ OnSide(p, d, t)

\* C14: when the streaming pass ends, every slot of a non-obstacle cell that the
\* pass did not write belongs to a cell on an Inflow or Outflow hyperplane (which
\* phase 4 overwrites)
C14_UnwrittenOnInOut ==
    StreamingEnded =>
        \A p \in Positions, j \in Dirs :
            ~object_at(p) /\ <<index(p), j>> \notin WrittenSlots => OnInOut(p)

\* a dimension with one side Periodic and the opposite side not
HalfPeriodic ==
    \E d \in Dims, s \in 1 .. 2 :
        boundary_schemes[d][s] = "Periodic" /\ boundary_schemes[d][3 - s] /= "Periodic"

\* the same, on the grids whose Periodic sides come in pairs
UnwrittenOnInOutPaired == ~HalfPeriodic => C14_UnwrittenOnInOut

\* density and velocity_vector of the cell are the moments of its distributions
Consistent(cell) ==
    /\ cell.density = sum_from(cell.distributions, B - 1)
    /\ cell.velocity_vector =
           IF RGt0(cell.density)
           THEN [d \in Dims |-> RDiv(momentum_from(cell.distributions, d, B - 1), cell.density)]
           ELSE [d \in Dims |-> Zero]

\* C15 as stated: after every iterate call, density and velocity_vector of every
\* non-obstacle cell are the moments of its distributions
C15_DerivedConsistent ==
    phase = "idle" /\ ticks >= 1 =>
        \A k \in Cells : ~object[k] => Consistent(algorithm_values[k])

\* C15: on a grid constructed with a density greater than 0, after every iterate
\* call, density and velocity_vector of every non-obstacle cell are the moments of
\* its distributions
C15_DerivedConsistentPositive ==
    RGt0(source_algorithm_values.density) => C15_DerivedConsistent

\* an iterate call has returned on a grid built with positive density whose Inflow
\* and Outflow cells were rewritten and whose cells differ in density
C15_Witness ==
    /\ phase = "idle"
    /\ ticks >= 1
    /\ RGt0(source_algorithm_values.density)
    /\ \E d \in Dims, s \in 1 .. 2 : boundary_schemes[d][s] = "Inflow"
    /\ \E d \in Dims, s \in 1 .. 2 : boundary_schemes[d][s] = "Outflow"
    /\ \E k \in Cells : algorithm_values[k] /= derived_end[k]
    /\ \E k \in Cells : algorithm_values[k].density /= algorithm_values[0].density

\* the positions of the loop the cursor is in: the grid, or one boundary hyperplane
SweepPositions ==
    {p \in InBounds(size) : \A d \in DOMAIN size : ~sweep_dims[d] => p[d] = sweep_start[d]}

\* C16: a next_pos call leaves an in-bounds position with the disabled coordinate
\* unchanged; it returns true exactly when the position it leaves was not visited
\* before in the sweep; it returns false when every position of the sweep (the grid,
\* or the hyperplane of the disabled dimension) has been visited exactly once
C16_SweepVisitsOnce ==
    [][result'[1] = "next_pos" =>
          /\ pos' \in SweepPositions
          /\ \A d \in DOMAIN size : ~sweep_dims[d] => pos'[d] = pos[d]
          /\ result'[3] <=> pos' \notin Swept
          /\ ~result'[3] =>
                /\ Swept = SweepPositions
                /\ Len(visited') = Cardinality(SweepPositions)
                /\ \A m, n \in 1 .. Len(visited') : visited'[m] = visited'[n] => m = n]_vars

\* next_pos returned false at the end of the sweep of a hyperplane of a grid of three
\* dimensions of different sizes whose middle dimension was disabled
C16_Witness ==
    /\ result[1] = "next_pos"
    /\ ~result[3]
    /\ phase = "inout"
    /\ side = 3
    /\ size = <<2, 3, 3>>
    /\ Len(visited) = 6
    /\ pos = <<0, 2, 0>>

\* C17: vorticity(pos) returns 0 and reads no neighbour at a position with a
\* coordinate 0 or size - 1; at every other position it reads the four axis-adjacent
\* neighbours, all in bounds, and returns (v[x+1,y] - v[x-1,y]) - (u[x,y+1] - u[x,y-1]),
\* obstacles or not
C17_Vorticity ==
    [][\A p \in Positions : result'[1] = "vorticity" /\ result'[2] = p =>
          IF \E d \in Dims : p[d] = 0 \/ p[d] = size[d] - 1
          THEN /\ result'[3] = Zero
               /\ vorticity_reads(p) = {}
          ELSE /\ vorticity_reads(p) =
                      {q \in Positions : \E d \in Dims :
                            /\ q[d] - p[d] \in {-1, 1}
                            /\ \A e \in Dims \ {d} : q[e] = p[e]}
               /\ Cardinality(vorticity_reads(p)) = 4
               /\ result'[3] =
                      RSub(RSub(algorithm_values[index(<<p[1] + 1, p[2]>>)].velocity_vector[2],
                                algorithm_values[index(<<p[1] - 1, p[2]>>)].velocity_vector[2]),
                           RSub(algorithm_values[index(<<p[1], p[2] + 1>>)].velocity_vector[1],
                                algorithm_values[index(<<p[1], p[2] - 1>>)].velocity_vector[1]))]_vars

\* vorticity returned a value other than 0 at an interior position next to an obstacle
C17_Witness ==
    /\ result[1] = "vorticity"
    /\ result[3] /= Zero
    /\ ticks >= 1
    /\ \E q \in vorticity_reads(result[2]) : object_at(q)

\* the lattice vector of direction i negated in the dimensions of flip
negated(i, flip) == [d \in Dims |-> IF d \in flip THEN -C[i][d] ELSE C[i][d]]

\* C18: the lookup of a changed lattice vector never fails in streaming, whatever the
\* boundary configuration, obstacle mask, cell and direction; the D2Q9 stencil holds
\* the zero vector and, for each of its vectors, the vector negated in any of the
\* dimensions, the full negation included
C18_LookupNeverFails ==
    /\ ~panicked
    /\ \E j \in Dirs : C[j] = ZeroPos
    /\ \A i \in Dirs, flip \in SUBSET Dims : \E j \in Dirs : C[j] = negated(i, flip)

\* a streaming pass has ended in which lattice vectors changed by bounce-back off a
\* side, by bounce-back off an obstacle and by SpecularReflection were looked up
C18_Witness ==
    /\ StreamingEnded
    /\ \E k \in Cells : object[k]
    /\ \E p \in Positions, i \in Dirs :
            /\ ~object_at(p)
            /\ Crosses(p, i, "BounceBack")
            /\ Written(writes, p, opposite(i), p, i)
    /\ \E p \in Positions, i \in Dirs :
            /\ ~object_at(p)
            /\ ~Crosses(p, i, "BounceBack")
            /\ HasDestination(p, i)
            /\ object_at(adjusted(p, i))
            /\ Written(writes, p, opposite(i), p, i)
    /\ \E p \in Positions, i \in Dirs :
            /\ SpecularMove(p, i)
            /\ mirrored(p, i) /= opposite(i)
            /\ Written(writes, adjusted(p, i), mirrored(p, i), p, i)

\* C19: on a grid of two dimensions with sizes of at least 2, the cursor of every
\* loop of iterate, the destinations streaming looks up in the obstacle mask and
\* writes to, and the neighbour Outflow maintenance reads are in-bounds positions; the
\* flat index of an in-bounds position is below len and is pos[0] + size[0] * pos[1]
C19_InBounds ==
    /\ pos \in Positions
    /\ \A p \in Positions : index(p) \in Cells /\ index(p) = p[1] + size[1] * p[2]
    /\ phase = "streaming" /\ ~object_at(pos) =>
            \A i \in Dirs :
                /\ (\A d \in Dims : move(pos, i).edge_pos[d] /= None) =>
                        move(pos, i).edge_pos \in Positions
                /\ move(pos, i).some => move(pos, i).new_pos \in Positions
    /\ phase = "inout" /\ side_scheme(side) = "Outflow" => other_pos(side, pos) \in Positions
    /\ \A n \in 1 .. Len(writes) : writes[n][1] \in Cells /\ writes[n][3] \in Cells

\* on a grid with a side of 2 cells, with an obstacle, a streaming pass has written
\* across the grid's sides and Outflow maintenance is at a cell of the high side of the
\* second dimension
C19_Witness ==
    /\ \E d \in Dims : size[d] = 2
    /\ \E k \in Cells : object[k]
    /\ phase = "inout"
    /\ side = 3
    /\ side_scheme(side) = "Outflow"
    /\ pos[1] = size[1] - 1
    /\ \E p \in Positions, i \in Dirs : PeriodicMove(p, i) /\ Written(writes, wrapped(p, i), i, p, i)

====
